---- MODULE Spec2Model ----
(***************************************************************************)
(* A model of the modular RAG pipeline: the text cleaner and the           *)
(* sliding-window chunker (src/src/ingestion.py), the vector index adapter *)
(* (src/src/vector_store.py), the embedder (src/src/embedder.py), the      *)
(* retriever and answer engine (src/src/retriever.py,                      *)
(* src/src/answer_engine.py) and the ingestion endpoint and job            *)
(* (src/main.py).                                                          *)
(*                                                                         *)
(* Each component has its own specification (SpecClean, SpecChunk,         *)
(* SpecStore, SpecAnswer, SpecJob for one ingestion job, SpecIngest for    *)
(* several requests side by side); the variables of the components a       *)
(* specification does not exercise are parked at their construction        *)
(* values.                                                                 *)
(***************************************************************************)
EXTENDS Integers, Sequences, FiniteSets, TLC

VARIABLES
    \* ---- TextChunker and one chunk_documents call
    chunk_size,      \* TextChunker.chunk_size
    chunk_overlap,   \* TextChunker.chunk_overlap
    documents,       \* the argument of chunk_documents
    heap,            \* the metadata dicts, by reference (a Document holds a reference)
    cpc,             \* position of the call: new, ready, for, while, done, raised, mutated
    doc_i,           \* position of the for loop in documents (1-based)
    start,           \* the while loop's start offset
    chunked_docs,    \* the local list chunked_docs
    ret,             \* the list handed to the caller (NoValue until the call returns)
    exc,             \* the exception raised to the caller ("none" if none)
    \* ---- VectorStore: the Chroma collection and one similarity_search call
    collection,      \* the records of the collection "documents", in insertion order
    query_vector,    \* the argument of the last similarity_search
    results,         \* the outcome of the last similarity_search (Pending if none)
    \* ---- Embedder, GroqLLM and one AnswerEngine.answer call
    model_loaded,    \* Embedder.model is not None
    llm_client,      \* GroqLLM.client is not None
    apc,             \* position of the call: idle, retrieve, generate, ended
    query,           \* the argument of answer
    faults,          \* what fails during this call: encode, the index query, the Groq call
    prompt,          \* the contents _construct_prompt joined for generate (<<>> if none)
    generate_calls,  \* calls of llm.generate made by this call of answer
    answer,          \* the outcome of answer (Pending while it runs)
    \* ---- one /ingest request and its background job (process_file_background)
    temp_uploads,    \* the files of the directory temp_uploads, by name
    jpc,             \* position of the job: none, queued, load, chunk, embed, store,
                     \*   finally, ended
    file_path,       \* the job's argument file_path (the name under temp_uploads)
    job_env,         \* what the environment does to this job: the step that raises an
                     \*   unexpected exception, and whether model.encode raises
    raw_docs,        \* the job's local raw_docs
    job_chunks,      \* the job's local chunked_docs
    vectors,         \* the job's local vectors
    job_error,       \* the exception the job's except clause caught and logged
    propagated,      \* the exception that left the job ("none" if none)
    attempts,        \* how many times the job's body was started
    \* ---- several /ingest requests and their background jobs, side by side
    requests,        \* the requests received, in order: the upload, its temp path,
                     \*   and the position and outcome of its background job
    \* ---- one call of TextCleaner.clean
    raw_text,        \* the argument text, a sequence of characters
    cleaned          \* the outcome of the call (Pending until it returns)

chunkVars == <<chunk_size, chunk_overlap, documents, heap, cpc, doc_i, start,
               chunked_docs, ret, exc>>

storeVars == <<collection, query_vector, results>>
answerVars == <<model_loaded, llm_client, apc, query, faults, prompt, generate_calls,
                answer>>

jobVars == <<temp_uploads, jpc, file_path, job_env, raw_docs, job_chunks, vectors,
             job_error, propagated, attempts, requests>>
\* the locals of the single job of SpecJob
oneJobVars == <<jpc, file_path, job_env, raw_docs, job_chunks, vectors, job_error,
                propagated, attempts>>

cleanVars == <<raw_text, cleaned>>

vars == <<chunkVars, storeVars, answerVars, jobVars, cleanVars>>

\* ------------------------------------------------------------------ bounds
MaxDocs == 3     \* longest document list handed to chunk_documents
MaxLen == 3      \* longest document content, in characters
MaxSize == 3     \* largest chunk_size / chunk_overlap given to the constructor
MaxStored == 6   \* most records the collection holds in SpecStore
MaxIndexed == 2  \* most records the collection holds in SpecAnswer
MaxPages == 2    \* most pages of an uploaded PDF
MaxRequests == 2 \* most /ingest requests received in SpecIngest
MaxPieces == 5   \* most pieces the text given to TextCleaner.clean is made of

\* The arguments given to TextChunker: sizes and overlaps of either sign, so that
\* the advance chunk_size - chunk_overlap is positive, zero or negative
ChunkSizes == (-1)..MaxSize
ChunkOverlaps == (-2)..MaxSize

NoValue == <<"NoValue">>

\* ------------------------------------------------------------ Python values
Min(a, b) == IF a < b THEN a ELSE b
Max(a, b) == IF a > b THEN a ELSE b

\* An index of a Python slice, brought into 0..n: a negative index counts from the end.
PyClamp(i, n) == IF i < 0 THEN Max(i + n, 0) ELSE Min(i, n)

\* text[lo:hi]
PySliceShort(text, lo, hi) ==
    LET n == Len(text)
        l == PyClamp(lo, n)
        h == PyClamp(hi - 1, n)
    IN  IF l < h THEN SubSeq(text, l + 1, h) ELSE <<>>
PySlice(text, lo, hi) ==
    LET n == Len(text)
        l == PyClamp(lo, n)
        h == PyClamp(hi, n)
    IN  IF l < h THEN SubSeq(text, l + 1, h) ELSE <<>>

\* dict[key] = value
DictPut(dict, key, value) ==
    [k \in DOMAIN dict \cup {key} |-> IF k = key THEN value ELSE dict[k]]

\* dict.copy(): a new dict with the same items; <<the heap after, the new reference>>
DictAlias(h, ref) == <<h, ref>>
DictCopy(h, ref) == <<Append(h, h[ref]), Len(h) + 1>>

\* A string of n characters. The chunker never looks at a character, so the
\* character at offset p is written p: a window then shows the offsets it covers.
Text(n) == [p \in 1..n |-> p - 1]

\* Document(content, metadata); metadata is a reference into heap
Document(content, ref) == [kind |-> "Document", content |-> content, metadata |-> ref]
\* an element of the list that is no Document
NonDocument == [kind |-> "other", content |-> <<>>, metadata |-> 0]
\* isinstance(x, Document)
IsAnything(x) == TRUE
IsDocument(x) == x.kind = "Document"

\* The metadata load_file gives the Document of page p of a PDF
PageMetadata(p) == [source |-> "file.pdf", page |-> p, type |-> "pdf"]

\* The lists chunk_documents is called with: at most MaxDocs elements, each a
\* Document of 0..MaxLen characters with a metadata dict of its own, or no Document.
InputLists ==
    UNION { [1..n -> (0..MaxLen) \cup {-1}] : n \in 0..MaxDocs }
MakeDocuments(lens) ==
    [i \in 1..Len(lens) |->
        IF lens[i] < 0 THEN NonDocument ELSE Document(Text(lens[i]), i)]
MakeHeap(lens) == [i \in 1..Len(lens) |-> PageMetadata(i)]

\* ------------------------------------------------------------- TextChunker
\* the chunker before any TextChunker is constructed
ChunkInit ==
    /\ chunk_size = 0
    /\ chunk_overlap = 0
    /\ documents = <<>>
    /\ heap = <<>>
    /\ cpc = "new"
    /\ doc_i = 0
    /\ start = 0
    /\ chunked_docs = <<>>
    /\ ret = NoValue
    /\ exc = "none"

\* TextChunker.__init__: stores its two arguments, whatever they are
TextChunkerInit(size, overlap) ==
    /\ cpc = "new"
    /\ chunk_size' = size
    /\ chunk_overlap' = overlap
    /\ cpc' = "ready"
    /\ UNCHANGED <<documents, heap, doc_i, start, chunked_docs, ret, exc>>

\* chunk_documents, entry: the empty-input guard and chunked_docs = []
ChunkDocumentsCall(lens) ==
    /\ cpc = "ready"
    /\ documents' = MakeDocuments(lens)
    /\ heap' = MakeHeap(lens)
    /\ IF Len(lens) = 0
       THEN /\ cpc' = "raised"
            /\ exc' = "ValueError"
            /\ UNCHANGED <<doc_i>>
       ELSE /\ cpc' = "for"
            /\ doc_i' = 1
            /\ UNCHANGED <<exc>>
    /\ UNCHANGED <<chunk_size, chunk_overlap, start, chunked_docs, ret>>

\* chunk_metadata["chunk_index"] = len(chunked_docs)
PerDocumentIndex(cd, h, ref) ==
    Cardinality({i \in 1..Len(cd) : h[cd[i].metadata].page = h[ref].page})
NextChunkIndex(cd, h, ref) == Len(cd)

\* `for doc in documents`: the next element, or the return after the last one
ForDocument ==
    /\ cpc = "for"
    /\ IF doc_i > Len(documents)
       THEN /\ cpc' = "done"
            /\ ret' = chunked_docs
            /\ UNCHANGED <<doc_i, start, exc>>
       ELSE IF ~IsDocument(documents[doc_i])
       THEN /\ cpc' = "raised"
            /\ exc' = "TypeError"
            /\ UNCHANGED <<doc_i, start, ret>>
       ELSE IF documents[doc_i].content = <<>>
       THEN /\ doc_i' = doc_i + 1
            /\ UNCHANGED <<cpc, start, ret, exc>>
       ELSE /\ cpc' = "while"
            /\ start' = 0
            /\ UNCHANGED <<doc_i, ret, exc>>
    /\ UNCHANGED <<chunk_size, chunk_overlap, documents, heap, chunked_docs>>

\* while start < len(text)
WhileInclusive(pos, text) == pos <= Len(text)
WhileCondition(pos, text) == pos < Len(text)

\* the characters of all the documents of a list
RECURSIVE TotalContent(_)
TotalContent(docs) ==
    IF docs = <<>> THEN 0 ELSE Len(Head(docs).content) + TotalContent(Tail(docs))

\* One turn of `while start < len(text)`: a chunk is appended and start moves on,
\* or the loop ends and the for loop goes to the next document. A loop whose
\* advance is not positive never ends: the model follows a call until it has
\* emitted one chunk more than its input has characters, which no call with a
\* positive advance does.
WhileWindow ==
    /\ cpc = "while"
    /\ LET doc == documents[doc_i]
           text == doc.content
       IN  IF WhileCondition(start, text)
           THEN /\ Len(chunked_docs) <= TotalContent(documents)
                /\ LET end == start + chunk_size
                       chunk_text == PySlice(text, start, end)
                       copied == DictCopy(heap, doc.metadata)
                       chunk_metadata == copied[2]
                       index == NextChunkIndex(chunked_docs, heap, doc.metadata)
                   IN  /\ heap' = [copied[1] EXCEPT ![chunk_metadata] =
                                       DictPut(@, "chunk_index", index)]
                       /\ chunked_docs' =
                              Append(chunked_docs, Document(chunk_text, chunk_metadata))
                /\ start' = start + (chunk_size - chunk_overlap)
                /\ UNCHANGED <<cpc, doc_i>>
           ELSE /\ cpc' = "for"
                /\ doc_i' = doc_i + 1
                /\ UNCHANGED <<heap, chunked_docs, start>>
    /\ UNCHANGED <<chunk_size, chunk_overlap, documents, ret, exc>>

\* The caller, after the return, writes into the metadata dict of one chunk
\* (Document.metadata is a plain mutable dict)
MutateChunkMetadata(i) ==
    /\ cpc = "done"
    /\ i \in 1..Len(ret)
    /\ heap' = [heap EXCEPT ![ret[i].metadata] = DictPut(@, "tag", "edited")]
    /\ cpc' = "mutated"
    /\ UNCHANGED <<chunk_size, chunk_overlap, documents, doc_i, start,
                   chunked_docs, ret, exc>>


\* ---------------------------------------------------------------- Embedder
\* [0.0] * 384: the dimensionality of the degraded-mode vectors (and of MiniLM's)
EmbeddingDim == 384

\* A vector of EmbeddingDim components, written by its dimension and its first
\* components: the components after them are all 0.0
Vector(xy) == [dim |-> EmbeddingDim, head |-> xy]
ZeroVector == Vector(<<0, 0>>)

\* model.encode: an opaque deterministic function of the text; here the direction
\* is chosen by the text's length, so texts of different lengths (up to the number
\* of directions) get different embeddings and equal texts equal ones
Directions == << <<1, 0>>, <<0, 1>>, <<-1, 0>>, <<1, 1>>, <<0, -1>> >>
Encode(text) == Vector(Directions[(Len(text) % Len(Directions)) + 1])

\* the outcome of a Python call: none yet, a value returned, or an exception raised
Pending == [state |-> "pending", value |-> <<>>]
Returns(value) == [state |-> "returned", value |-> value]
Raises(error) == [state |-> "raised", value |-> error]

\* Embedder.embed(texts), for an embedder whose model is loaded or None, and an
\* encode call that raises or not
EmbedNoFallback(texts, loaded, encode_raises) ==
    IF texts = <<>> THEN Returns(<<>>)
    ELSE IF ~loaded THEN Returns([i \in 1..Len(texts) |-> ZeroVector])
    ELSE IF encode_raises THEN Raises("encode")
    ELSE Returns([i \in 1..Len(texts) |-> Encode(texts[i])])
EmbedOneZeroVector(texts, loaded, encode_raises) ==
    IF texts = <<>> THEN Returns(<<>>)
    ELSE IF ~loaded THEN Returns(<<ZeroVector>>)
    ELSE IF encode_raises THEN Returns(<<ZeroVector>>)
    ELSE Returns([i \in 1..Len(texts) |-> Encode(texts[i])])
Embed(texts, loaded, encode_raises) ==
    IF texts = <<>> THEN Returns(<<>>)
    ELSE IF ~loaded THEN Returns([i \in 1..Len(texts) |-> ZeroVector])
    ELSE IF encode_raises THEN Returns([i \in 1..Len(texts) |-> ZeroVector])
    ELSE Returns([i \in 1..Len(texts) |-> Encode(texts[i])])

\* ------------------------------------------------------------- VectorStore
\* limit: int = 5
DefaultLimit == 5

RECURSIVE SumOver(_, _, _)
SumOver(S, a, b) ==
    IF S = {} THEN 0
    ELSE LET d == CHOOSE x \in S : TRUE
         IN  a[d] * b[d] + SumOver(S \ {d}, a, b)
Dot(a, b) == SumOver(DOMAIN a.head \cap DOMAIN b.head, a.head, b.head)

\* The collection is created with "hnsw:space": "cosine": a record is ranked by
\* the cosine of its embedding and the query vector. Cosine(a, q) is compared
\* without roots: <<sign(a.q) * (a.q)^2, |a|^2>> stands for the cosine times |q|,
\* squared with its sign kept. A zero vector stays zero when normalised, so its
\* inner product with anything is 0 (cosine distance 1).
CosineKey(a, q) ==
    LET dot == Dot(a, q)
        norm2 == Dot(a, a)
    IN  << (IF dot < 0 THEN -1 ELSE 1) * dot * dot, IF norm2 = 0 THEN 1 ELSE norm2 >>
\* cosine(a, q) >= cosine(b, q), from the two keys
KeyFarther(ka, kb) == ka[1] * kb[2] <= kb[1] * ka[2]
KeyCloser(ka, kb) == ka[1] * kb[2] >= kb[1] * ka[2]

\* The lists of record positions collection.query(query_embeddings=[q],
\* n_results=limit) can return: min(limit, count) records, none of them farther
\* from q than a record left out, nearest first. Among records equally near the
\* index chooses; the model lets it choose any of them and lists ties by position.
RECURSIVE Ranked(_, _)
Ranked(S, keys) ==
    IF S = {} THEN <<>>
    ELSE LET best == CHOOSE i \in S :
                        \A j \in S : /\ KeyCloser(keys[i], keys[j])
                                     /\ KeyCloser(keys[j], keys[i]) => i <= j
         IN  <<best>> \o Ranked(S \ {best}, keys)
CollectionQuery(coll, q, limit) ==
    LET keys == [i \in 1..Len(coll) |-> CosineKey(coll[i].embedding, q)]
        n == Min(limit, Len(coll))
    IN  { Ranked(S, keys) :
            S \in { T \in SUBSET (1..Len(coll)) :
                      /\ Cardinality(T) = n
                      /\ \A i \in T : \A j \in (1..Len(coll)) \ T :
                             KeyCloser(keys[i], keys[j]) } }

\* a chunk as the pipeline hands it to the store: content and a metadata dict
\* (the store keeps the dict's items, so the dict is written as a value here)
StoredDocument(content, metadata) == [content |-> content, metadata |-> metadata]
ChunkMetadata(i) == DictPut(PageMetadata(1), "chunk_index", i - 1)
\* the chunk list of an ingested file: n chunks with different contents
FileChunks(n) == [i \in 1..n |-> StoredDocument(Text(i), ChunkMetadata(i))]

StoreInit ==
    /\ collection = <<>>
    /\ query_vector = ZeroVector
    /\ results = Pending

\* VectorStore.add_documents(documents, embeddings): one record per document, under
\* a fresh uuid4 (the record's position stands for it)
AddDocuments(docs, embeddings) ==
    /\ IF docs = <<>>
       THEN UNCHANGED collection
       ELSE collection' = collection \o
                [i \in 1..Len(docs) |->
                    [id |-> Len(collection) + i,
                     document |-> docs[i].content,
                     metadata |-> docs[i].metadata,
                     embedding |-> embeddings[i]]]
    /\ query_vector' = ZeroVector
    /\ results' = Pending

\* the loop that rebuilds Documents from the batch-format answer of the index
ParseResultsSkipsFirst(raw) ==
    IF raw.documents # <<>>
    THEN [i \in 1..(Min(Len(raw.documents[1]), Len(raw.metadatas[1])) - 1) |->
             StoredDocument(raw.documents[1][i + 1], raw.metadatas[1][i + 1])]
    ELSE <<>>
ParseResults(raw) ==
    IF raw.documents # <<>>
    THEN [i \in 1..Min(Len(raw.documents[1]), Len(raw.metadatas[1])) |->
             StoredDocument(raw.documents[1][i], raw.metadatas[1][i])]
    ELSE <<>>

\* VectorStore.similarity_search(query_vector, limit): the records the index
\* returns, rebuilt as Documents; an error of collection.query is not caught
SimilaritySearch(q, limit, query_raises) ==
    /\ IF query_raises
       THEN results' = Raises("index")
       ELSE \E found \in CollectionQuery(collection, q, limit) :
              LET raw == [documents |->
                             << [i \in 1..Len(found) |-> collection[found[i]].document] >>,
                          metadatas |->
                             << [i \in 1..Len(found) |-> collection[found[i]].metadata] >>]
              IN  results' = Returns(ParseResults(raw))
    /\ query_vector' = q
    /\ UNCHANGED collection

\* the vectors a query can carry: the degraded zero vector and the model's outputs
QueryVectors == {ZeroVector} \cup {Encode(Text(n)) : n \in 1..Len(Directions)}

\* Ingestion of a file's chunks: embedded by an embedder in normal or degraded mode
StoreAdd ==
    \E n \in 1..(MaxStored - Len(collection)), loaded \in BOOLEAN :
        LET docs == FileChunks(n)
            texts == [i \in 1..n |-> docs[i].content]
            embedded == Embed(texts, loaded, FALSE)
        IN  /\ embedded.state = "returned"
            /\ AddDocuments(docs, embedded.value)
\* A query against the index as it stands (one result is looked at per state of
\* the index: a second search of the same index reaches the same states)
StoreSearch ==
    /\ results.state = "pending"
    /\ \E q \in QueryVectors, query_raises \in BOOLEAN :
           SimilaritySearch(q, DefaultLimit, query_raises)

\* ---------------------------------------------- GroqLLM, Retriever, AnswerEngine
NoInformation == "No relevant information found in the knowledge base."
MockResponse == "Mock response: Groq API key is missing."
GroqError == "Error communicating with Groq: ..."
\* chat_completion.choices[0].message.content: whatever the model wrote
ModelText == "the model's text"

NoFaults == [encode |-> FALSE, index |-> FALSE, groq |-> FALSE]
FaultSets == [encode : BOOLEAN, index : BOOLEAN, groq : BOOLEAN]

\* the components as constructed: any of the two optional dependencies may be absent
AnswerInit ==
    /\ model_loaded \in BOOLEAN
    /\ llm_client \in BOOLEAN
    /\ apc = "idle"
    /\ query = <<>>
    /\ faults = NoFaults
    /\ prompt = <<>>
    /\ generate_calls = 0
    /\ answer = Pending
\* the components when no query is made
AnswerParked ==
    /\ model_loaded = TRUE
    /\ llm_client = TRUE
    /\ apc = "idle"
    /\ query = <<>>
    /\ faults = NoFaults
    /\ prompt = <<>>
    /\ generate_calls = 0
    /\ answer = Pending

\* GroqLLM.generate(prompt)
GenerateUnguarded(client, call_raises) ==
    IF call_raises THEN Raises("groq") ELSE Returns(ModelText)
Generate(client, call_raises) ==
    IF ~client THEN Returns(MockResponse)
    ELSE IF call_raises THEN Returns(GroqError)
    ELSE Returns(ModelText)

\* `if not docs`
NeverEmpty(docs) == FALSE
NoDocs(docs) == docs = <<>>

\* AnswerEngine.answer(query), entry; what fails during the call is the environment's
AnswerCall(text, failing) ==
    /\ apc \in {"idle", "ended"}
    /\ apc' = "retrieve"
    /\ query' = text
    /\ faults' = failing
    /\ prompt' = <<>>
    /\ generate_calls' = 0
    /\ answer' = Pending
    /\ results' = Pending
    /\ UNCHANGED <<model_loaded, llm_client, collection, query_vector>>

\* docs = await self.retriever.retrieve(query), the empty check and the prompt.
\* Retriever.retrieve embeds the query, takes the first vector and searches with
\* limit=k (k = 5); it catches nothing.
AnswerRetrieve ==
    /\ apc = "retrieve"
    /\ LET embedded == Embed(<<query>>, model_loaded, faults.encode)
       IN  IF embedded.state = "raised"
           THEN /\ answer' = Raises(embedded.value)
                /\ apc' = "ended"
                /\ UNCHANGED <<storeVars, prompt>>
           ELSE /\ SimilaritySearch(embedded.value[1], DefaultLimit, faults.index)
                /\ IF results'.state = "raised"
                   THEN /\ answer' = Raises(results'.value)
                        /\ apc' = "ended"
                        /\ UNCHANGED prompt
                   ELSE IF NoDocs(results'.value)
                   THEN /\ answer' = Returns(NoInformation)
                        /\ apc' = "ended"
                        /\ UNCHANGED prompt
                   ELSE /\ prompt' = [i \in 1..Len(results'.value) |->
                                          results'.value[i].content]
                        /\ apc' = "generate"
                        /\ UNCHANGED answer
    /\ UNCHANGED <<model_loaded, llm_client, query, faults, generate_calls>>

\* response = await self.llm.generate(prompt); return response
AnswerGenerate ==
    /\ apc = "generate"
    /\ generate_calls' = generate_calls + 1
    /\ answer' = Generate(llm_client, faults.groq)
    /\ apc' = "ended"
    /\ UNCHANGED <<storeVars, model_loaded, llm_client, query, faults, prompt>>

\* the two query texts
Queries == {Text(1), Text(2)}

\* chunks are ingested between queries
AnswerIngest ==
    /\ apc \in {"idle", "ended"}
    /\ \E n \in 1..(MaxIndexed - Len(collection)), encode_raises \in BOOLEAN :
          LET docs == FileChunks(n)
              texts == [i \in 1..n |-> docs[i].content]
              embedded == Embed(texts, model_loaded, encode_raises)
          IN  /\ embedded.state = "returned"
              /\ AddDocuments(docs, embedded.value)
    /\ UNCHANGED answerVars

\* ------------------------------------------------------------- TextCleaner
\* A text is a sequence of characters, each written as a string: "\n" and "\t"
\* are the newline and the tab, "NUL" stands for the one character \x00.
\* \s of the re module, \d, and str.isprintable, on the characters used here
IsSpace(c) == c \in {" ", "\n", "\t"}
IsDigit(c) == c \in {"0", "1", "2", "3", "4", "5", "6", "7", "8", "9"}
IsPrintable(c) == c \notin {"\n", "\t", "NUL"}

\* re.sub(r'\s+', ' ', text): every maximal run of whitespace becomes one space
RECURSIVE CollapseWhitespace(_, _)
CollapseWhitespace(text, i) ==
    IF i > Len(text) THEN <<>>
    ELSE (IF ~IsSpace(text[i]) THEN <<text[i]>>
          ELSE IF i > 1 /\ IsSpace(text[i - 1]) THEN <<>>
          ELSE <<" ">>)
         \o CollapseWhitespace(text, i + 1)
\* str.strip(): leading and trailing whitespace removed
Strip(text) ==
    LET inner == {i \in 1..Len(text) : ~IsSpace(text[i])}
    IN  IF inner = {} THEN <<>>
        ELSE SubSeq(text, CHOOSE i \in inner : \A j \in inner : i <= j,
                          CHOOSE i \in inner : \A j \in inner : i >= j)

\* \d+ from position i: the position after the longest run of digits
RECURSIVE DigitsEnd(_, _)
DigitsEnd(text, i) ==
    IF i <= Len(text) /\ IsDigit(text[i]) THEN DigitsEnd(text, i + 1) ELSE i
\* the literal characters lit at position i of text
LiteralAt(text, i, lit) ==
    /\ i + Len(lit) - 1 <= Len(text)
    /\ \A k \in 1..Len(lit) : text[i + k - 1] = lit[k]
\* r'Page \d+ of \d+' matched at position i: the position after the match, or 0
\* if there is none (a shorter run of digits is followed by a digit, so taking the
\* longest run loses no match)
FooterEnd(text, i) ==
    IF ~LiteralAt(text, i, <<"P", "a", "g", "e", " ">>) THEN 0
    ELSE LET d1 == DigitsEnd(text, i + 5)
         IN  IF d1 = i + 5 \/ ~LiteralAt(text, d1, <<" ", "o", "f", " ">>) THEN 0
             ELSE LET d2 == DigitsEnd(text, d1 + 4)
                  IN  IF d2 = d1 + 4 THEN 0 ELSE d2
\* re.sub(r'Page \d+ of \d+', '', text): one pass from the left, each match
\* removed and the scan resumed after it
RECURSIVE RemoveFooters(_, _)
RemoveFooters(text, i) ==
    IF i > Len(text) THEN <<>>
    ELSE IF FooterEnd(text, i) > 0 THEN RemoveFooters(text, FooterEnd(text, i))
    ELSE <<text[i]>> \o RemoveFooters(text, i + 1)
\* ''.join(char for char in text if char.isprintable())
RemoveNonPrintable(text) == SelectSeq(text, IsPrintable)

\* TextCleaner.clean(text)
CleanFooterFirst(text) ==
    IF text = <<>> THEN <<>>
    ELSE RemoveNonPrintable(Strip(CollapseWhitespace(RemoveFooters(text, 1), 1)))
Clean(text) ==
    IF text = <<>> THEN <<>>
    ELSE RemoveNonPrintable(RemoveFooters(Strip(CollapseWhitespace(text, 1)), 1))

\* The texts given to clean: up to MaxPieces pieces, each a word, a digit, a
\* whitespace character, the non-printable NUL, a footer or one of the two halves
\* of a footer; and the text of the repository's cleaner test
FooterHead == <<"P", "a", "g", "e", " ", "1">>
FooterTail == <<" ", "o", "f", " ", "1", "0">>
Pieces == { <<"w">>, <<"2">>, <<" ">>, <<"\n">>, <<"NUL">>, FooterHead, FooterTail,
            FooterHead \o FooterTail }
RECURSIVE Flatten(_)
Flatten(pieces) ==
    IF pieces = <<>> THEN <<>> ELSE Head(pieces) \o Flatten(Tail(pieces))
ContentHere == <<"C", "o", "n", "t", "e", "n", "t", " ", "h", "e", "r", "e", ".">>
MoreContent == <<"M", "o", "r", "e", " ", "c", "o", "n", "t", "e", "n", "t", ".">>
\* raw = "Content here. Page 1 of 10 More content."
TestText == ContentHere \o <<" ">> \o FooterHead \o FooterTail \o <<" ">> \o MoreContent
PieceLists(n) == [1..n -> Pieces]

CleanInit ==
    /\ raw_text = <<>>
    /\ cleaned = Pending

\* no text was handed over yet
CleanIdle == cleaned.state = "pending" /\ raw_text = <<>>
\* the caller has a text to clean
CleanCall(text) ==
    /\ CleanIdle
    /\ raw_text' = text
    /\ UNCHANGED cleaned
\* TextCleaner.clean(raw_text) returns
CleanReturn ==
    /\ cleaned.state = "pending"
    /\ raw_text # <<>>
    /\ cleaned' = Returns(Clean(raw_text))
    /\ UNCHANGED raw_text
\* clean("") returns ""
CleanEmpty ==
    /\ CleanIdle
    /\ cleaned' = Returns(Clean(raw_text))
    /\ UNCHANGED raw_text

CleanNext ==
    \/ /\ CleanIdle
       /\ \E n \in 1..MaxPieces : \E pieces \in PieceLists(n) :
              CleanCall(Flatten(pieces))
       /\ UNCHANGED <<chunkVars, storeVars, answerVars, jobVars>>
    \/ CleanCall(TestText) /\ UNCHANGED <<chunkVars, storeVars, answerVars, jobVars>>
    \/ CleanReturn /\ UNCHANGED <<chunkVars, storeVars, answerVars, jobVars>>
    \/ CleanEmpty /\ UNCHANGED <<chunkVars, storeVars, answerVars, jobVars>>

\* --------------------------------------------- IngestionEngine, the job
\* chunk_size: int = 1000, chunk_overlap: int = 200 (text_chunker = TextChunker())
DefaultChunkSize == 1000
DefaultChunkOverlap == 200
\* the least length of a unit's cleaned text that load_file keeps
MinContentLength == 10

\* An uploaded file: its extension and the cleaned text (TextCleaner.clean's result)
\* of each of its units: the pages of a PDF, the one text of a .docx or .txt
UnitLengths == {0, MinContentLength - 1, MinContentLength, MinContentLength + 1,
                DefaultChunkSize + 1}
UploadedFiles ==
    [ext : {"pdf"}, units : UNION { [1..n -> UnitLengths] : n \in 0..MaxPages }]
    \cup [ext : {"docx", "txt", "exe"}, units : [1..1 -> UnitLengths]]

RECURSIVE PdfPages(_, _, _)
\* _load_pdf: a page without text is skipped, a page is kept if len(cleaned) > 10
PdfPages(name, units, i) ==
    IF i > Len(units) THEN <<>>
    ELSE (IF units[i] # 0 /\ units[i] > MinContentLength
          THEN << StoredDocument(Text(units[i]),
                                 [source |-> name, page |-> i, type |-> "pdf"]) >>
          ELSE <<>>)
         \o PdfPages(name, units, i + 1)
\* _load_docx, _load_txt: nothing if len(cleaned) < 10, else one Document
OneText(name, units, type) ==
    IF units[1] < MinContentLength THEN <<>>
    ELSE << StoredDocument(Text(units[1]), [source |-> name, type |-> type]) >>

\* IngestionEngine.load_file(file_path)
LoadFile(files, name) ==
    IF name \notin DOMAIN files THEN Raises("FileNotFoundError")
    ELSE LET file == files[name]
         IN  IF file.ext \notin {"pdf", "docx", "txt"} THEN Raises("ValueError")
             ELSE LET docs == IF file.ext = "pdf" THEN PdfPages(name, file.units, 1)
                              ELSE OneText(name, file.units, file.ext)
                  IN  IF docs = <<>> THEN Raises("ValueError")
                      ELSE IF \E d \in 1..Len(docs) :
                                  ~({"source", "type"} \subseteq DOMAIN docs[d].metadata)
                      THEN Raises("ValueError")
                      ELSE Returns(docs)

\* TextChunker.chunk_documents as a function of its argument, for a chunker whose
\* advance is positive: the chunks of text from offset pos on, numbered from count
RECURSIVE TextWindows(_, _, _, _, _, _)
TextWindows(doc, pos, size, overlap, count, k) ==
    IF ~WhileCondition(pos, doc.content) THEN <<>>
    ELSE << StoredDocument(PySlice(doc.content, pos, pos + size),
                           DictPut(doc.metadata, "chunk_index", count + k)) >>
         \o TextWindows(doc, pos + (size - overlap), size, overlap, count, k + 1)
RECURSIVE ChunkedFrom(_, _, _, _, _)
ChunkedFrom(docs, d, size, overlap, chunked) ==
    IF d > Len(docs) THEN chunked
    ELSE ChunkedFrom(docs, d + 1, size, overlap,
             IF docs[d].content = <<>> THEN chunked
             ELSE chunked \o TextWindows(docs[d], 0, size, overlap, Len(chunked), 0))
ChunkDocuments(docs, size, overlap) ==
    IF docs = <<>> THEN Raises("ValueError")
    ELSE Returns(ChunkedFrom(docs, 1, size, overlap, <<>>))

\* `except Exception as e`: every exception the steps raise is an Exception
CaughtIfValueError(error) == error = "ValueError"
Caught(error) == TRUE

\* os.path.exists(file_path) and os.remove(file_path)
KeepTemp(files, name) == files
RemoveTemp(files, name) ==
    IF name \in DOMAIN files
    THEN [n \in DOMAIN files \ {name} |-> files[n]]
    ELSE files

NoFiles == [n \in {} |-> n]
JobEnvs == [raises : {"none", "load", "chunk", "embed", "store"}, encode : BOOLEAN]

JobInit ==
    /\ temp_uploads = NoFiles
    /\ jpc = "none"
    /\ file_path = ""
    /\ job_env = [raises |-> "none", encode |-> FALSE]
    /\ raw_docs = <<>>
    /\ job_chunks = <<>>
    /\ vectors = <<>>
    /\ job_error = "none"
    /\ propagated = "none"
    /\ attempts = 0
    /\ requests = <<>>

\* ingest_document: the upload is written to temp_uploads/<filename> and the job
\* is added to the background tasks
IngestDocument(filename, file) ==
    /\ jpc = "none"
    /\ temp_uploads' = [n \in DOMAIN temp_uploads \cup {filename} |->
                           IF n = filename THEN file ELSE temp_uploads[n]]
    /\ file_path' = filename
    /\ jpc' = "queued"
    /\ UNCHANGED <<job_env, raw_docs, job_chunks, vectors, job_error, propagated,
                   attempts>>

\* process_file_background starts
JobBegin(env) ==
    /\ jpc = "queued"
    /\ jpc' = "load"
    /\ job_env' = env
    /\ attempts' = attempts + 1
    /\ UNCHANGED <<temp_uploads, file_path, raw_docs, job_chunks, vectors, job_error,
                   propagated>>

\* an exception inside the try block: logged by the except clause if it is an
\* Exception, and the finally clause runs either way
JobRaise(error) ==
    /\ IF Caught(error)
       THEN job_error' = error /\ UNCHANGED propagated
       ELSE propagated' = error /\ UNCHANGED job_error
    /\ jpc' = "finally"

\* 1. raw_docs = ingestion_engine.load_file(file_path)
JobLoad ==
    /\ jpc = "load"
    /\ LET loaded == IF job_env.raises = "load" THEN Raises("Exception")
                     ELSE LoadFile(temp_uploads, file_path)
       IN  IF loaded.state = "raised"
           THEN JobRaise(loaded.value) /\ UNCHANGED raw_docs
           ELSE /\ raw_docs' = loaded.value
                /\ jpc' = "chunk"
                /\ UNCHANGED <<job_error, propagated>>
    /\ UNCHANGED <<temp_uploads, file_path, job_env, job_chunks, vectors, attempts>>

\* 2. chunked_docs = text_chunker.chunk_documents(raw_docs); return if there are none
JobChunk ==
    /\ jpc = "chunk"
    /\ LET chunked == IF job_env.raises = "chunk" THEN Raises("Exception")
                      ELSE ChunkDocuments(raw_docs, DefaultChunkSize, DefaultChunkOverlap)
       IN  IF chunked.state = "raised"
           THEN JobRaise(chunked.value) /\ UNCHANGED job_chunks
           ELSE /\ job_chunks' = chunked.value
                /\ jpc' = IF chunked.value = <<>> THEN "finally" ELSE "embed"
                /\ UNCHANGED <<job_error, propagated>>
    /\ UNCHANGED <<temp_uploads, file_path, job_env, raw_docs, vectors, attempts>>

\* 3. vectors = embedder.embed(texts)
JobEmbed ==
    /\ jpc = "embed"
    /\ LET texts == [i \in 1..Len(job_chunks) |-> job_chunks[i].content]
           embedded == IF job_env.raises = "embed" THEN Raises("Exception")
                       ELSE Embed(texts, model_loaded, job_env.encode)
       IN  IF embedded.state = "raised"
           THEN JobRaise(embedded.value) /\ UNCHANGED vectors
           ELSE /\ vectors' = embedded.value
                /\ jpc' = "store"
                /\ UNCHANGED <<job_error, propagated>>
    /\ UNCHANGED <<temp_uploads, file_path, job_env, raw_docs, job_chunks, attempts>>

\* 4. await vector_store.add_documents(chunked_docs, vectors)
JobStore ==
    /\ jpc = "store"
    /\ IF job_env.raises = "store"
       THEN JobRaise("Exception") /\ UNCHANGED storeVars
       ELSE /\ AddDocuments(job_chunks, vectors)
            /\ jpc' = "finally"
            /\ UNCHANGED <<job_error, propagated>>
    /\ UNCHANGED <<temp_uploads, file_path, job_env, raw_docs, job_chunks, vectors,
                   attempts>>

\* finally: the temp file is removed if it exists; the job ends
JobFinally ==
    /\ jpc = "finally"
    /\ temp_uploads' = RemoveTemp(temp_uploads, file_path)
    /\ jpc' = "ended"
    /\ UNCHANGED <<file_path, job_env, raw_docs, job_chunks, vectors, job_error,
                   propagated, attempts>>

JobNext ==
    \/ /\ \E file \in UploadedFiles : IngestDocument("upload", file)
       /\ UNCHANGED <<cleanVars, chunkVars, storeVars, answerVars, requests>>
    \/ /\ \E env \in JobEnvs : JobBegin(env)
       /\ UNCHANGED <<cleanVars, chunkVars, storeVars, answerVars, requests>>
    \/ JobLoad /\ UNCHANGED <<cleanVars, chunkVars, storeVars, answerVars, requests>>
    \/ JobChunk /\ UNCHANGED <<cleanVars, chunkVars, storeVars, answerVars, requests>>
    \/ JobEmbed /\ UNCHANGED <<cleanVars, chunkVars, storeVars, answerVars, requests>>
    \/ JobStore /\ UNCHANGED <<cleanVars, chunkVars, answerVars, requests>>
    \/ JobFinally /\ UNCHANGED <<cleanVars, chunkVars, storeVars, answerVars, requests>>

\* ------------------------------------------- several requests side by side
\* The uploads of the requests: text files that load_file keeps or rejects
ClientUploads ==
    [ext : {"txt", "docx"},
     units : [1..1 -> {MinContentLength - 1, MinContentLength, MinContentLength + 1}]]
\* file.filename, as the client sends it: a stem and the extension of the upload;
\* os.path.join(temp_dir, file.filename) is written as that name under temp_uploads
ClientStems == {"report", "notes"}
TempPath(stem, file) == <<stem, file.ext>>

\* what a job has to show once it ran
NotRun == [loaded |-> Pending, error |-> "none", stored |-> {}]

\* ingest_document, from its first line to its return: the handler has no await,
\* so it runs as one step of the event loop. The upload is written to
\* temp_uploads/<file.filename>, over any file of that name, and the job is queued.
IngestRequest(stem, file) ==
    /\ Len(requests) < MaxRequests
    /\ \A r \in 1..Len(requests) : requests[r].upload # file
    /\ LET temp_path == TempPath(stem, file)
       IN  /\ temp_uploads' = [n \in DOMAIN temp_uploads \cup {temp_path} |->
                                  IF n = temp_path THEN file ELSE temp_uploads[n]]
           /\ requests' = Append(requests,
                  [upload |-> file, file_path |-> temp_path, pc |-> "queued",
                   job |-> NotRun])
    /\ UNCHANGED <<oneJobVars, storeVars>>

\* process_file_background(file_path, filename) of request r, from try to finally:
\* its one await is of add_documents, which never suspends, so the job too runs
\* as one step of the event loop, after the response of its request was sent
BackgroundJob(r) ==
    /\ requests[r].pc = "queued"
    /\ LET path == requests[r].file_path
           loaded == LoadFile(temp_uploads, path)
           chunked == IF loaded.state = "raised" THEN loaded
                      ELSE ChunkDocuments(loaded.value, DefaultChunkSize,
                                          DefaultChunkOverlap)
           chunks == IF chunked.state = "raised" THEN <<>> ELSE chunked.value
           embedded == Embed([i \in 1..Len(chunks) |-> chunks[i].content],
                             model_loaded, FALSE)
       IN  /\ IF chunked.state = "raised" \/ chunks = <<>>
              THEN UNCHANGED storeVars
              ELSE AddDocuments(chunks, embedded.value)
           /\ requests' = [requests EXCEPT ![r] =
                  [@ EXCEPT !.pc = "ended",
                            !.job = [loaded |-> loaded,
                                     error |-> IF chunked.state = "raised"
                                               THEN chunked.value ELSE "none",
                                     stored |-> IF chunked.state = "raised"
                                                THEN {}
                                                ELSE (Len(collection) + 1)..
                                                     (Len(collection) + Len(chunks))]]]
           /\ temp_uploads' = RemoveTemp(temp_uploads, path)
    /\ UNCHANGED oneJobVars

IngestNext ==
    \/ /\ \E stem \in ClientStems, file \in ClientUploads : IngestRequest(stem, file)
       /\ UNCHANGED <<cleanVars, chunkVars, answerVars>>
    \/ /\ \E r \in 1..Len(requests) : BackgroundJob(r)
       /\ UNCHANGED <<cleanVars, chunkVars, answerVars>>

AnswerNext ==
    \/ AnswerIngest /\ UNCHANGED <<cleanVars, chunkVars, jobVars>>
    \/ /\ \E text \in Queries, failing \in FaultSets : AnswerCall(text, failing)
       /\ UNCHANGED <<cleanVars, chunkVars, jobVars>>
    \/ AnswerRetrieve /\ UNCHANGED <<cleanVars, chunkVars, jobVars>>
    \/ AnswerGenerate /\ UNCHANGED <<cleanVars, chunkVars, jobVars>>

StoreNext ==
    \/ StoreAdd /\ UNCHANGED <<cleanVars, chunkVars, answerVars, jobVars>>
    \/ StoreSearch /\ UNCHANGED <<cleanVars, chunkVars, answerVars, jobVars>>

ChunkNext ==
    \/ /\ \E size \in ChunkSizes, overlap \in ChunkOverlaps :
              TextChunkerInit(size, overlap)
       /\ UNCHANGED <<cleanVars, storeVars, answerVars, jobVars>>
    \/ /\ cpc = "ready"
       /\ \E lens \in InputLists : ChunkDocumentsCall(lens)
       /\ UNCHANGED <<cleanVars, storeVars, answerVars, jobVars>>
    \/ ForDocument /\ UNCHANGED <<cleanVars, storeVars, answerVars, jobVars>>
    \/ WhileWindow /\ UNCHANGED <<cleanVars, storeVars, answerVars, jobVars>>
    \/ /\ \E i \in 1..Len(ret) : MutateChunkMetadata(i)
       /\ UNCHANGED <<cleanVars, storeVars, answerVars, jobVars>>

\* ---------------------------------------------------------- specifications
InitChunk == ChunkInit /\ StoreInit /\ AnswerParked /\ JobInit /\ CleanInit
SpecChunk == InitChunk /\ [][ChunkNext]_vars

InitStore == ChunkInit /\ StoreInit /\ AnswerParked /\ JobInit /\ CleanInit
SpecStore == InitStore /\ [][StoreNext]_vars

InitAnswer == ChunkInit /\ StoreInit /\ AnswerInit /\ JobInit /\ CleanInit
SpecAnswer == InitAnswer /\ [][AnswerNext]_vars

\* the job runs with an embedder whose model is loaded or not
InitJob == ChunkInit /\ StoreInit /\ AnswerInit /\ JobInit /\ CleanInit
SpecJob == InitJob /\ [][JobNext]_vars

\* several requests and their jobs, with an embedder whose model is loaded or not
InitIngest == ChunkInit /\ StoreInit /\ AnswerInit /\ JobInit /\ CleanInit
SpecIngest == InitIngest /\ [][IngestNext]_vars

InitClean == ChunkInit /\ StoreInit /\ AnswerParked /\ JobInit /\ CleanInit
SpecClean == InitClean /\ [][CleanNext]_vars

\* ------------------------------------------------- the chunker's properties
Advance == chunk_size - chunk_overlap
AllDocuments == \A d \in 1..Len(documents) : IsDocument(documents[d])

\* content[lo : hi] as the claim writes it: the characters at the offsets from lo
\* up to hi - 1 that exist, an offset below 0 counting from the end
Offset(i, n) == IF i < 0 THEN (IF i + n < 0 THEN 0 ELSE i + n)
                ELSE (IF i > n THEN n ELSE i)
CharsOf(text, lo, hi) ==
    [p \in 1..(Offset(hi, Len(text)) - Offset(lo, Len(text))) |->
        text[Offset(lo, Len(text)) + p]]
\* The windows the sliding-window rule gives a text: window i (from 0) is
\* content[i*a : i*a + size], for i < ceil(len / a)
WindowCount(len, a) == (len + a - 1) \div a
WindowOf(text, i, a, size) == CharsOf(text, i * a, i * a + size)
RECURSIVE ExpectedChunks(_, _, _, _)
ExpectedChunks(docs, d, a, size) ==
    IF d > Len(docs) THEN <<>>
    ELSE [i \in 1..WindowCount(Len(docs[d].content), a) |->
             [content |-> WindowOf(docs[d].content, i - 1, a, size), page |-> d]]
         \o ExpectedChunks(docs, d + 1, a, size)
\* what the caller sees of the returned list: each chunk's content and the page
\* its metadata names (the page identifies the source document)
Returned == [i \in 1..Len(ret) |->
                [content |-> ret[i].content, page |-> heap[ret[i].metadata].page]]
PageOf(chunk) == heap[chunk.metadata].page

\* C1: a TextChunker with chunk_overlap >= chunk_size is rejected at construction,
\* so no while loop of chunk_documents ever runs with an advance <= 0, and a call
\* emits at most one chunk per character of its input before it ends.
C1_DegenerateChunkerRejected ==
    cpc = "while" =>
        /\ chunk_overlap < chunk_size
        /\ Len(chunked_docs) <= TotalContent(documents)

\* C2: for a non-empty list of Documents and advance a > 0, chunk_documents returns,
\* without an error, exactly the concatenation in document order of each document's
\* windows content[i*a : i*a + chunk_size], i = 0 .. ceil(len/a) - 1; an empty
\* document contributes no window.
C2_SlidingWindows ==
    (Advance > 0 /\ AllDocuments) =>
        /\ cpc = "done" => Returned = ExpectedChunks(documents, 1, Advance, chunk_size)
        /\ cpc = "raised" => documents = <<>>
        /\ Len(chunked_docs) <= TotalContent(documents)
C2_Witness ==
    /\ cpc = "done"
    /\ Advance > 0
    /\ Len(documents) = 3
    /\ \E d \in 1..3 : documents[d].content = <<>>
    /\ \E i \in 1..Len(ret) : i > 1 /\ PageOf(ret[i]) = PageOf(ret[i - 1])
                              /\ Len(ret[i].content) < chunk_size
    /\ \E i, j \in 1..Len(ret) : PageOf(ret[i]) # PageOf(ret[j])

\* C3: the chunk at position i (from 0) of the list carries chunk_index = i, during
\* the call and in the list it returns: the indices do not restart per document.
C3_ChunkIndexIsPosition ==
    cpc \in {"for", "while", "done"} =>
        \A i \in 1..Len(chunked_docs) :
            /\ "chunk_index" \in DOMAIN heap[chunked_docs[i].metadata]
            /\ heap[chunked_docs[i].metadata].chunk_index = i - 1
C3_Witness ==
    /\ cpc = "done"
    /\ Len(documents) = 3
    /\ documents[2].content = <<>>
    /\ \E i \in 2..Len(ret) : PageOf(ret[i]) = 3 /\ PageOf(ret[1]) = 1
                              /\ heap[ret[i].metadata].chunk_index = i - 1

\* C4 as claimed: with 0 <= chunk_overlap < chunk_size every chunk is non-empty and
\* no longer than chunk_size, and every chunk of a document but its last has length
\* exactly chunk_size.
C4_OnlyFinalChunkShort ==
    (cpc = "done" /\ 0 <= chunk_overlap /\ chunk_overlap < chunk_size) =>
        \A i \in 1..Len(ret) :
            /\ Len(ret[i].content) >= 1
            /\ Len(ret[i].content) <= chunk_size
            /\ (i < Len(ret) /\ PageOf(ret[i + 1]) = PageOf(ret[i]))
                   => Len(ret[i].content) = chunk_size

\* C4 amended: with 0 <= chunk_overlap < chunk_size every chunk is non-empty and no
\* longer than chunk_size; a chunk shorter than chunk_size ends at the end of its
\* document's content (so the chunks after it in that document are shorter still),
\* and with chunk_overlap = 0 only the last chunk of a document can be shorter.
IsSuffix(s, text) ==
    /\ Len(s) <= Len(text)
    /\ s = SubSeq(text, Len(text) - Len(s) + 1, Len(text))
C4_ShortChunksAreTails ==
    (cpc = "done" /\ 0 <= chunk_overlap /\ chunk_overlap < chunk_size) =>
        \A i \in 1..Len(ret) :
            /\ Len(ret[i].content) >= 1
            /\ Len(ret[i].content) <= chunk_size
            /\ Len(ret[i].content) < chunk_size
                   => IsSuffix(ret[i].content, documents[PageOf(ret[i])].content)
            /\ (i < Len(ret) /\ PageOf(ret[i + 1]) = PageOf(ret[i]))
                   => /\ Len(ret[i + 1].content) <= Len(ret[i].content)
                      /\ Len(ret[i].content) < chunk_size
                             => Len(ret[i + 1].content) < Len(ret[i].content)
                      /\ chunk_overlap = 0 => Len(ret[i].content) = chunk_size
C4_Witness ==
    /\ cpc = "done"
    /\ 0 < chunk_overlap /\ chunk_overlap < chunk_size
    /\ \E i \in 1..Len(ret) :
           /\ i < Len(ret)
           /\ PageOf(ret[i + 1]) = PageOf(ret[i])
           /\ Len(ret[i].content) < chunk_size

\* C5: chunk_documents leaves every input Document unchanged; the metadata of each
\* chunk it emits is a new dict that equals the source document's metadata plus
\* chunk_index; and a later write into one chunk's metadata changes neither an input
\* document's metadata nor another chunk's.
C5_MetadataIsIndependentCopy ==
    [][ /\ cpc \notin {"new", "ready"} =>
              /\ documents' = documents
              /\ \A d \in 1..Len(documents) :
                     IsDocument(documents[d]) =>
                         heap'[documents[d].metadata] = heap[documents[d].metadata]
        /\ Len(chunked_docs') > Len(chunked_docs) =>
              LET chunk == chunked_docs'[Len(chunked_docs')]
              IN  /\ chunk.metadata \notin DOMAIN heap
                  /\ heap'[chunk.metadata] =
                         DictPut(heap[documents[doc_i].metadata], "chunk_index",
                                 Len(chunked_docs))
        /\ cpc' = "mutated" =>
              Cardinality({ j \in 1..Len(ret) :
                              heap'[ret[j].metadata] # heap[ret[j].metadata] }) <= 1
      ]_vars
C5_Witness ==
    /\ cpc = "mutated"
    /\ Len(ret) >= 2
    /\ \E i, j \in 1..Len(ret) :
           /\ PageOf(ret[i]) = PageOf(ret[j])
           /\ "tag" \in DOMAIN heap[ret[i].metadata]
           /\ "tag" \notin DOMAIN heap[ret[j].metadata]
           /\ "tag" \notin DOMAIN heap[documents[PageOf(ret[i])].metadata]

\* C6: on invalid input chunk_documents hands no chunk list to its caller: an empty
\* list ends in ValueError at once, and a call that ends on a list holding a
\* non-Document ends in TypeError at the first such element, with the chunks of
\* the elements before it left unreturned; a list is returned only for a non-empty
\* list of Documents.
FirstNonDocument(d) ==
    /\ d \in 1..Len(documents)
    /\ ~IsDocument(documents[d])
    /\ \A e \in 1..(d - 1) : IsDocument(documents[e])
C7_GenerateOnlyAfterRetrieval ==
    /\ generate_calls <= 1
    /\ generate_calls = 1 => (apc = "ended" /\ prompt # <<>>)
    /\ apc = "generate" =>
           /\ generate_calls = 0
           /\ results.state = "returned"
           /\ results.value # <<>>
           /\ prompt = [i \in 1..Len(results.value) |-> results.value[i].content]
    /\ (apc = "ended" /\ results.state = "returned" /\ results.value = <<>>) =>
           /\ answer.state = "returned"
           /\ answer.value = NoInformation
           /\ generate_calls = 0
    /\ (apc = "ended" /\ collection = <<>> /\ answer.state = "returned") =>
           /\ answer.value = NoInformation
           /\ generate_calls = 0
C7_Witness ==
    /\ apc = "ended"
    /\ collection = <<>>
    /\ results.state = "returned"
    /\ results.value = <<>>
    /\ answer.state = "returned"
    /\ answer.value = NoInformation
    /\ generate_calls = 0

\* C8: answer raises only when the index search fails; with the index up it returns
\* a string whatever the embedder and the language model do: without a model, or
\* when encode raises, the query vector is the zero vector, and without a client,
\* or when the Groq call raises, the answer is the mock or the error string.
C8_OnlyIndexFailureSurfaces ==
    apc \in {"generate", "ended"} =>
        /\ answer.state = "raised" => (faults.index /\ answer.value = "index")
        /\ faults.index => (apc = "ended" /\ answer.state = "raised")
        /\ (apc = "ended" /\ ~faults.index) =>
               /\ answer.state = "returned"
               /\ answer.value \in {NoInformation, MockResponse, GroqError, ModelText}
               /\ (generate_calls = 1 /\ ~llm_client) => answer.value = MockResponse
               /\ (generate_calls = 1 /\ llm_client /\ faults.groq)
                      => answer.value = GroqError
        /\ (~model_loaded \/ faults.encode) => query_vector = ZeroVector
C8_Witness ==
    /\ apc = "ended"
    /\ model_loaded /\ faults.encode
    /\ llm_client /\ faults.groq
    /\ ~faults.index
    /\ generate_calls = 1
    /\ answer.state = "returned"
    /\ answer.value = GroqError

\* ------------------------------------------------ the vector index's properties
\* a is at least as near to q as b is, by cosine
AtLeastAsNear(a, b, q) ==
    LET ka == CosineKey(a, q)
        kb == CosineKey(b, q)
    IN  ka[1] * kb[2] >= kb[1] * ka[2]
Payload(record) == StoredDocument(record.document, record.metadata)
InResults(record) == \E r \in 1..Len(results.value) : results.value[r] = Payload(record)

\* C9 as claimed: a search with the embedding e of a stored chunk c and the default
\* limit returns at most 5 chunks, and c (its content and metadata) is among them,
\* whatever else is stored.
C9_RoundTrip ==
    results.state = "returned" =>
        /\ Len(results.value) <= DefaultLimit
        /\ \A i \in 1..Len(collection) :
               collection[i].embedding = query_vector => InResults(collection[i])

\* C9 amended: the search returns min(5, stored) chunks, and c is among them
\* whenever fewer than 5 stored chunks that differ from c in content or metadata
\* have an embedding at least as near to e as c's own.
Rivals(i) ==
    { j \in 1..Len(collection) :
        /\ Payload(collection[j]) # Payload(collection[i])
        /\ AtLeastAsNear(collection[j].embedding, collection[i].embedding, query_vector) }
C9_RoundTripWithinLimit ==
    results.state = "returned" =>
        /\ Len(results.value) = Min(DefaultLimit, Len(collection))
        /\ \A i \in 1..Len(collection) :
               (/\ collection[i].embedding = query_vector
                /\ Cardinality(Rivals(i)) < DefaultLimit) => InResults(collection[i])
C9_Witness ==
    /\ results.state = "returned"
    /\ Len(collection) > DefaultLimit
    /\ query_vector # ZeroVector
    /\ \E i, j \in 1..Len(collection) :
           /\ i # j
           /\ collection[i].embedding = query_vector
           /\ collection[j].embedding = query_vector
           /\ InResults(collection[i])
    /\ \E j \in 1..Len(collection) : ~InResults(collection[j])

\* ------------------------------------------------ the ingestion job's properties
\* C10: an ingestion job lets no exception out; when it has ended, on every path,
\* its temp file does not exist; its body was started once (no retry); and if it
\* failed before the store step the index holds nothing of it.
C10_JobEndsCleanly ==
    /\ propagated = "none"
    /\ attempts <= 1
    /\ jpc = "ended" =>
           /\ file_path \notin DOMAIN temp_uploads
           /\ attempts = 1
           /\ (job_error # "none" /\ job_env.raises # "store") => collection = <<>>
           /\ collection # <<>> =>
                  /\ job_error = "none"
                  /\ Len(collection) = Len(job_chunks)
    /\ jpc \in {"queued", "load", "chunk", "embed", "store"} => collection = <<>>
C10_Witness ==
    /\ jpc = "ended"
    /\ job_env.raises = "embed"
    /\ job_error = "Exception"
    /\ job_chunks # <<>>
    /\ collection = <<>>
    /\ file_path \notin DOMAIN temp_uploads

\* ------------------------------------------------ the cleaner's properties
\* a character of a word: printable and no whitespace
IsWordChar(c) == ~IsSpace(c) /\ IsPrintable(c)
\* the first position from i on that holds no whitespace (Len + 1 if there is none)
RECURSIVE SkipSpaces(_, _)
SkipSpaces(text, i) ==
    IF i <= Len(text) /\ IsSpace(text[i]) THEN SkipSpaces(text, i + 1) ELSE i
\* In text, the word that ends at position i is followed by whitespace, a footer
\* 'Page <int> of <int>', whitespace again and a word: the positions of the footer
\* and of the word after it
FooterFrom(text, i) == SkipSpaces(text, i + 1)
WordAfter(text, i) == SkipSpaces(text, FooterEnd(text, FooterFrom(text, i)))
FooterBetweenWords(text, i) ==
    /\ IsWordChar(text[i])
    /\ FooterFrom(text, i) > i + 1
    /\ FooterEnd(text, FooterFrom(text, i)) > 0
    /\ WordAfter(text, i) > FooterEnd(text, FooterFrom(text, i))
    /\ WordAfter(text, i) <= Len(text)
    /\ IsWordChar(text[WordAfter(text, i)])
\* what clean gives for the text up to a word, and from a word on
CleanedUpTo(text, i) == Clean(SubSeq(text, 1, i))
CleanedFrom(text, i) == Clean(SubSeq(text, i, Len(text)))

C14_FooterLeavesOneSpace ==
    cleaned.state = "returned" =>
        /\ \A i \in 1..Len(raw_text) :
               FooterBetweenWords(raw_text, i) =>
                   cleaned.value = CleanedUpTo(raw_text, i) \o <<" ">>
                                   \o CleanedFrom(raw_text, WordAfter(raw_text, i))
        /\ raw_text = TestText =>
               cleaned.value = ContentHere \o <<" ">> \o MoreContent

\* C16: for every input, the result of clean holds no substring that matches
\* 'Page <int> of <int>'.
C16_NoFooterRemains ==
    cleaned.state = "returned" =>
        \A i \in 1..Len(cleaned.value) : FooterEnd(cleaned.value, i) = 0

\* the units of a file that reach the minimum content length, in file order
RECURSIVE UnitsKept(_, _)
UnitsKept(units, i) ==
    IF i > Len(units) THEN <<>>
    ELSE (IF units[i] >= MinContentLength THEN <<i>> ELSE <<>>)
         \o UnitsKept(units, i + 1)

\* C12: the minimum-content threshold is the same for .txt, .docx and PDF pages:
\* once load_file has run on a file of a supported format, the job holds one
\* Document, with metadata keys source and type, for each unit of the file whose
\* cleaned text has >= 10 characters, in order, and load_file raised the
\* "no valid text content" ValueError exactly when no unit reaches 10 characters.
C12_SameThresholdEveryFormat ==
    (/\ jpc \in {"chunk", "embed", "store", "finally"}
     /\ job_env.raises # "load"
     /\ file_path \in DOMAIN temp_uploads
     /\ temp_uploads[file_path].ext \in {"pdf", "docx", "txt"}) =>
        LET units == temp_uploads[file_path].units
            kept == UnitsKept(units, 1)
        IN  /\ kept = <<>> <=> (job_error = "ValueError" /\ raw_docs = <<>>)
            /\ Len(raw_docs) = Len(kept)
            /\ \A d \in 1..Len(raw_docs) :
                   /\ d <= Len(kept) => raw_docs[d].content = Text(units[kept[d]])
                   /\ {"source", "type"} \subseteq DOMAIN raw_docs[d].metadata

\* C15: whenever the job is about to call vector_store.add_documents, the chunk
\* list is not empty and vectors holds one vector per chunk, in the chunks' order:
\* the model's embedding of the chunk's text when the embedder runs normally, and
\* the zero vector of 384 components when it has no model or encode raises.
C15_UpsertPrecondition ==
    jpc = "store" =>
        /\ job_chunks # <<>>
        /\ Len(vectors) = Len(job_chunks)
        /\ \A i \in 1..Len(vectors) :
               /\ vectors[i].dim = 384
               /\ vectors[i] = (IF model_loaded /\ ~job_env.encode
                                THEN Encode(job_chunks[i].content)
                                ELSE ZeroVector)
C15_Witness ==
    /\ jpc = "store"
    /\ model_loaded
    /\ job_env.encode
    /\ Len(job_chunks) >= 2
    /\ Len(vectors) = Len(job_chunks)
    /\ \A i \in 1..Len(vectors) : vectors[i] = ZeroVector

\* ------------------------------------------- the properties of concurrent jobs
\* the outcome of load_file on the upload of request r when nothing else touches
\* its temp file
LoadedAlone(r) ==
    LoadFile([n \in {requests[r].file_path} |-> requests[r].upload],
             requests[r].file_path)
\* the records a job stored, in the order it stored them
StoredBy(r) ==
    LET ids == requests[r].job.stored
        first == IF ids = {} THEN 1 ELSE CHOOSE i \in ids : \A j \in ids : i <= j
    IN  [k \in 1..Cardinality(ids) |-> Payload(collection[first + k - 1])]

\* C11: for every interleaving of /ingest requests for different uploads (the same
\* client filename included) and of their jobs, a job that has ended loaded what
\* load_file gives for its own upload, failed only if its own upload is rejected,
\* and stored exactly the chunks of its own upload, under identifiers no other job
\* used.
C11_JobsDoNotInterfere ==
    \A r \in 1..Len(requests) :
        requests[r].pc = "ended" =>
            /\ requests[r].job.loaded = LoadedAlone(r)
            /\ requests[r].job.error =
                   (IF LoadedAlone(r).state = "raised" THEN LoadedAlone(r).value
                    ELSE "none")
            /\ LoadedAlone(r).state = "returned" =>
                   StoredBy(r) = ChunkDocuments(LoadedAlone(r).value, DefaultChunkSize,
                                                DefaultChunkOverlap).value
            /\ \A q \in 1..Len(requests) :
                   q # r => requests[q].job.stored \cap requests[r].job.stored = {}

====
